---- MODULE Spec2Model ----
(***************************************************************************)
(* The CHIP-8 interpreter core of chip8_core/src/lib.rs as a state machine. *)
(* The machine (struct Emu) is one record; the public operations new,       *)
(* reset, tick and tick_timers are operators over that record, and a panic  *)
(* (unimplemented!, index out of bounds, arithmetic overflow) ends the run. *)
(***************************************************************************)
EXTENDS Integers, Sequences, FiniteSets, TLC

\* ------------------------------------------------------------ constants

SCREEN_WIDTH == 64
SCREEN_HEIGHT == 32
RAM_SIZE == 4096
NUM_REGS == 16
STACK_SIZE == 16
NUM_KEYS == 16
FONTSET_SIZE == 80
START_ADDR == 512

\* u8 and u16 arithmetic
U8 == 256
U16 == 65536

FONTSET ==
  << 240, 144, 144, 144, 240,
      32,  96,  32,  32, 112,
     240,  16, 240, 128, 240,
     240,  16, 240,  16, 240,
     144, 144, 240,  16,  16,
     240, 128, 240,  16, 240,
     240, 128, 240, 144, 240,
     240,  16,  32,  64,  64,
     240, 144, 240, 144, 240,
     240, 144, 240,  16, 240,
     240, 144, 240, 144, 144,
     224, 144, 224, 144, 224,
     240, 128, 128, 128, 240,
     224, 144, 144, 144, 224,
     240, 128, 240, 128, 240,
     240, 128, 240, 128, 128 >>

\* The longest run of operations the model follows from an initial machine.
MaxSteps == 3

\* ------------------------------------------------------------ the machine

\* Emu::new: everything zero, pc at START_ADDR, the font in ram[..FONTSET_SIZE].
new ==
  [ pc     |-> START_ADDR,
    ram    |-> [i \in 0..(RAM_SIZE - 1) |->
                  IF i < FONTSET_SIZE THEN FONTSET[i + 1] ELSE 0],
    screen |-> [i \in 0..(SCREEN_WIDTH * SCREEN_HEIGHT - 1) |-> FALSE],
    v_reg  |-> [i \in 0..(NUM_REGS - 1) |-> 0],
    i_reg  |-> 0,
    sp     |-> 0,
    stack  |-> [i \in 0..(STACK_SIZE - 1) |-> 0],
    keys   |-> [i \in 0..(NUM_KEYS - 1) |-> FALSE],
    dt     |-> 0,
    st     |-> 0 ]

\* The outcome of an operation: the machine it leaves and the panic, if any.
Ok(m) == [m |-> m, panic |-> "none"]
Panic(m, why) == [m |-> m, panic |-> why]

\* Emu::push: the slot is indexed (bounds-checked) before sp is advanced.
push(m, val) ==
  IF m.sp >= STACK_SIZE
    THEN Panic(m, "index_out_of_bounds")
    ELSE Ok([m EXCEPT !.stack[m.sp] = val, !.sp = m.sp + 1])

\* Emu::pop: `self.sp -= 1` on sp = 0 panics in a build with overflow checks
\* and wraps to 65535 without them, where the index then panics. The set holds
\* every outcome a build can produce; val is the popped address.
pop(m) ==
  IF m.sp = 0
    THEN { [m |-> m, panic |-> "overflow", val |-> 0],
           [m |-> [m EXCEPT !.sp = U16 - 1], panic |-> "index_out_of_bounds",
            val |-> 0] }
    ELSE IF m.sp - 1 >= STACK_SIZE
      THEN { [m |-> [m EXCEPT !.sp = m.sp - 1], panic |-> "index_out_of_bounds",
              val |-> 0] }
      ELSE { [m |-> [m EXCEPT !.sp = m.sp - 1], panic |-> "none",
              val |-> m.stack[m.sp - 1]] }

\* reset without the line `self.keys = [false; NUM_KEYS]`
reset_keeps_keys(m) == [new EXCEPT !.keys = m.keys]

\* reset without the line that copies FONTSET into ram
reset_without_font(m) == [new EXCEPT !.ram = [i \in 0..(RAM_SIZE - 1) |-> 0]]

\* Emu::reset
reset(m) ==
  [ pc     |-> START_ADDR,
    ram    |-> [i \in 0..(RAM_SIZE - 1) |->
                  IF i < FONTSET_SIZE THEN FONTSET[i + 1] ELSE 0],
    screen |-> [i \in 0..(SCREEN_WIDTH * SCREEN_HEIGHT - 1) |-> FALSE],
    v_reg  |-> [i \in 0..(NUM_REGS - 1) |-> 0],
    i_reg  |-> 0,
    sp     |-> 0,
    stack  |-> [i \in 0..(STACK_SIZE - 1) |-> 0],
    keys   |-> [i \in 0..(NUM_KEYS - 1) |-> FALSE],
    dt     |-> 0,
    st     |-> 0 ]

\* ------------------------------------------------------------ fetch

\* The value of `op` when a tick fetched no instruction word.
NoOp == -1

\* fetch with the address masked into RAM instead of bounds-checked
fetch_wrapping(m) ==
  [m |-> [m EXCEPT !.pc = (m.pc + 2) % U16], panic |-> "none",
   op |-> (m.ram[m.pc % RAM_SIZE] * 256) + m.ram[(m.pc + 1) % RAM_SIZE]]

\* Emu::fetch: two bounds-checked reads, then pc += 2.
fetch(m) ==
  IF m.pc >= RAM_SIZE
    THEN [m |-> m, panic |-> "index_out_of_bounds", op |-> NoOp]
    ELSE IF (m.pc + 1) % U16 >= RAM_SIZE
      THEN [m |-> m, panic |-> "index_out_of_bounds", op |-> NoOp]
      ELSE [m |-> [m EXCEPT !.pc = (m.pc + 2) % U16], panic |-> "none",
            op |-> (m.ram[m.pc] * 256) + m.ram[(m.pc + 1) % U16]]

\* ------------------------------------------------------------ decode

digit1(op) == (op \div 4096) % 16
digit2(op) == (op \div 256) % 16
digit3(op) == (op \div 16) % 16
digit4(op) == op % 16

\* (op & 0xFF) as u8 and op & 0xFFF
nn(op) == op % 256
nnn(op) == op % 4096

\* `_` in a match pattern
Wild == -1

\* The arms of the match in Emu::execute, in source order.
Arms ==
  << <<0, 0, 0, 0>>,         \* 0000 NOP
     <<0, 0, 14, 0>>,        \* 00E0 CLS
     <<Wild, Wild, Wild, Wild>>, \* unimplemented!
     <<0, 0, 14, 14>>,       \* 00EE RET
     <<1, Wild, Wild, Wild>>,   \* 1NNN JMP
     <<2, Wild, Wild, Wild>>,   \* 2NNN CALL
     <<3, Wild, Wild, Wild>>,   \* 3XNN
     <<4, Wild, Wild, Wild>>,   \* 4XNN
     <<5, Wild, Wild, 0>>,     \* 5XY0
     <<6, Wild, Wild, Wild>>,   \* 6XNN
     <<7, Wild, Wild, Wild>>,   \* 7XNN
     <<8, Wild, Wild, 0>>,     \* 8XY0
     <<8, Wild, Wild, 1>>,     \* 8XY1
     <<8, Wild, Wild, 2>>,     \* 8XY2
     <<8, Wild, Wild, 3>>,     \* 8XY3
     <<8, Wild, Wild, 4>> >>   \* 8XY4

Matches(pat, op) ==
  /\ pat[1] \in {Wild, digit1(op)}
  /\ pat[2] \in {Wild, digit2(op)}
  /\ pat[3] \in {Wild, digit3(op)}
  /\ pat[4] \in {Wild, digit4(op)}

\* A match takes the first arm whose pattern matches.
ArmOf(op) ==
  CHOOSE i \in 1..Len(Arms) :
    /\ Matches(Arms[i], op)
    /\ \A j \in 1..(i - 1) : ~Matches(Arms[j], op)

\* ------------------------------------------------------------ execute

RECURSIVE BitAnd(_, _, _)
BitAnd(a, b, n) ==
  IF n = 0 THEN 0
  ELSE ((a % 2) * (b % 2)) + (2 * BitAnd(a \div 2, b \div 2, n - 1))

RECURSIVE BitXor(_, _, _)
BitXor(a, b, n) ==
  IF n = 0 THEN 0
  ELSE (((a % 2) + (b % 2)) % 2) + (2 * BitXor(a \div 2, b \div 2, n - 1))

\* execute without the 0000 arm: the word reaches the catch-all arm
op_0000_unimplemented(m, op) == {Panic(m, "unimplemented")}

\* 0000: return
op_0000(m, op) == {Ok(m)}

\* op_00E0 clearing the first row only
op_00E0_first_row(m, op) ==
  {Ok([m EXCEPT !.screen =
         [i \in 0..(SCREEN_WIDTH * SCREEN_HEIGHT - 1) |->
            IF i < SCREEN_WIDTH THEN FALSE ELSE m.screen[i]]])}

\* 00E0: the screen is replaced by an all-false one
op_00E0(m, op) ==
  {Ok([m EXCEPT !.screen =
         [i \in 0..(SCREEN_WIDTH * SCREEN_HEIGHT - 1) |-> FALSE]])}

\* the catch-all arm with an empty body: the word is ignored
unimplemented_ignored(m, op) == {Ok(m)}

\* the catch-all arm: unimplemented!("Unimplemented opcode: {}", op)
unimplemented(m, op) == {Panic(m, "unimplemented")}

\* 00EE
op_00EE(m, op) ==
  { IF r.panic = "none"
      THEN Ok([r.m EXCEPT !.pc = r.val])
      ELSE Panic(r.m, r.panic) : r \in pop(m) }

\* 1NNN
op_1NNN(m, op) == {Ok([m EXCEPT !.pc = nnn(op)])}

\* 2NNN
op_2NNN(m, op) ==
  LET r == push(m, m.pc)
  IN  { IF r.panic = "none"
          THEN Ok([r.m EXCEPT !.pc = nnn(op)])
          ELSE r }

\* 3XNN
op_3XNN(m, op) ==
  {Ok(IF m.v_reg[digit2(op)] = nn(op)
        THEN [m EXCEPT !.pc = (m.pc + 2) % U16] ELSE m)}

\* 4XNN
op_4XNN(m, op) ==
  {Ok(IF m.v_reg[digit2(op)] # nn(op)
        THEN [m EXCEPT !.pc = (m.pc + 2) % U16] ELSE m)}

\* 5XY0
op_5XY0(m, op) ==
  {Ok(IF m.v_reg[digit2(op)] = m.v_reg[digit3(op)]
        THEN [m EXCEPT !.pc = (m.pc + 2) % U16] ELSE m)}

\* 6XNN
op_6XNN(m, op) == {Ok([m EXCEPT !.v_reg[digit2(op)] = nn(op)])}

\* 7XNN: wrapping_add
op_7XNN(m, op) ==
  {Ok([m EXCEPT !.v_reg[digit2(op)] = (m.v_reg[digit2(op)] + nn(op)) % U8])}

\* 8XY0
op_8XY0(m, op) == {Ok([m EXCEPT !.v_reg[digit2(op)] = m.v_reg[digit3(op)]])}

\* 8XY1: the comparison `v_reg[x] != v_reg[y]` is evaluated and dropped
op_8XY1(m, op) == {Ok(m)}

\* 8XY2
op_8XY2(m, op) ==
  {Ok([m EXCEPT !.v_reg[digit2(op)] =
         BitAnd(m.v_reg[digit2(op)], m.v_reg[digit3(op)], 8)])}

\* 8XY3
op_8XY3(m, op) ==
  {Ok([m EXCEPT !.v_reg[digit2(op)] =
         BitXor(m.v_reg[digit2(op)], m.v_reg[digit3(op)], 8)])}

\* 8XY4: overflowing_add; v_reg[x] is written first, v_reg[0xF] second
op_8XY4(m, op) ==
  LET sum == m.v_reg[digit2(op)] + m.v_reg[digit3(op)]
      m1  == [m EXCEPT !.v_reg[digit2(op)] = sum % U8]
  IN  {Ok([m1 EXCEPT !.v_reg[15] = IF sum >= U8 THEN 1 ELSE 0])}

\* Emu::execute: the set of outcomes of the arm the match takes.
execute(m, op) ==
  LET arm == ArmOf(op)
  IN  CASE arm = 1  -> op_0000(m, op)
        [] arm = 2  -> op_00E0(m, op)
        [] arm = 3  -> unimplemented(m, op)
        [] arm = 4  -> op_00EE(m, op)
        [] arm = 5  -> op_1NNN(m, op)
        [] arm = 6  -> op_2NNN(m, op)
        [] arm = 7  -> op_3XNN(m, op)
        [] arm = 8  -> op_4XNN(m, op)
        [] arm = 9  -> op_5XY0(m, op)
        [] arm = 10 -> op_6XNN(m, op)
        [] arm = 11 -> op_7XNN(m, op)
        [] arm = 12 -> op_8XY0(m, op)
        [] arm = 13 -> op_8XY1(m, op)
        [] arm = 14 -> op_8XY2(m, op)
        [] arm = 15 -> op_8XY3(m, op)
        [] arm = 16 -> op_8XY4(m, op)

\* tick decrementing the delay timer itself after the instruction
tick_with_delay_timer(m) ==
  LET f == fetch(m)
      dec(x) == [x EXCEPT !.dt = IF x.dt > 0 THEN x.dt - 1 ELSE 0]
  IN  IF f.panic # "none"
        THEN {[m |-> f.m, panic |-> f.panic, op |-> NoOp]}
        ELSE {[m |-> dec(r.m), panic |-> r.panic, op |-> f.op] :
                r \in execute(f.m, f.op)}

\* Emu::tick: fetch, then execute the fetched word.
tick(m) ==
  LET f == fetch(m)
  IN  IF f.panic # "none"
        THEN {[m |-> f.m, panic |-> f.panic, op |-> NoOp]}
        ELSE {[m |-> r.m, panic |-> r.panic, op |-> f.op] : r \in execute(f.m, f.op)}

\* tick_timers without the guards: a wrapping decrement of both timers
tick_timers_wrapping(m) ==
  [m |-> [m EXCEPT !.dt = (m.dt + U8 - 1) % U8, !.st = (m.st + U8 - 1) % U8],
   beeps |-> 0]

\* Emu::tick_timers: the branch on st = 1 is empty, so no tone-end signal is
\* produced; beeps is the number of signals the call emits.
tick_timers(m) ==
  LET m1 == IF m.dt > 0 THEN [m EXCEPT !.dt = m.dt - 1] ELSE m
      m2 == IF m1.st > 0 THEN [m1 EXCEPT !.st = m1.st - 1] ELSE m1
  IN  [m |-> m2, beeps |-> 0]

\* ------------------------------------------------------------ inputs

\* The instruction word with the four nibbles d1 d2 d3 d4.
Word(d1, d2, d3, d4) == (d1 * 4096) + (d2 * 256) + (d3 * 16) + d4

\* Register indices, byte values and timer values the initial machines use.
IdxSamples == {0, 1, 15}
ByteSamples == {0, 1, 5, 255}
\* <<a, b>>: the sums 0, 2, 255, 256 and 510, each operand order
RegSamples == {<<0, 0>>, <<1, 1>>, <<0, 255>>, <<1, 255>>, <<255, 1>>, <<255, 255>>}
TimerSamples == {0, 1, 2, 5, 255}
PcSamples == {START_ADDR, RAM_SIZE - 2, RAM_SIZE - 1, RAM_SIZE, U16 - 1}
SpSamples == {0, 1, STACK_SIZE}

\* Words of the 0 family, and one word of each family no arm names.
SystemOps ==
  {Word(0, 0, 0, 0), Word(0, 0, 14, 0), Word(0, 0, 14, 14), Word(0, 0, 14, 1),
   Word(0, 1, 2, 3)} \cup {Word(d, 1, 2, 3) : d \in 9..15}
\* 1NNN and 2NNN, to the word after the first and to the last word of RAM.
FlowOps ==
  {Word(d, 2, 0, 2) : d \in {1, 2}} \cup {Word(d, 15, 15, 14) : d \in {1, 2}}
\* 3XNN, 4XNN, 6XNN, 7XNN
ImmediateOps ==
  {Word(d, x, n \div 16, n % 16) :
     d \in {3, 4, 6, 7}, x \in IdxSamples, n \in ByteSamples}
\* 5XYk and 8XYk, k = 0..5
RegisterOps ==
  {Word(d, x, y, k) : d \in {5, 8}, x \in IdxSamples, y \in IdxSamples, k \in 0..5}
OpSamples == SystemOps \cup FlowOps \cup ImmediateOps \cup RegisterOps

\* An initial machine is described by the two words at START_ADDR, the value
\* a of the even and b of the odd registers, pc, sp, whether the screen is
\* lit, the timers and whether keys are down.
DefaultInput ==
  [w1 |-> Word(0, 0, 0, 0), w2 |-> Word(0, 0, 14, 14), a |-> 1, b |-> 255,
   pc |-> START_ADDR, sp |-> 1, lit |-> TRUE, dt |-> 5, st |-> 1, down |-> TRUE]

Inputs ==
  \* every instruction with the registers it reads
  {[DefaultInput EXCEPT !.w1 = w, !.a = r[1], !.b = r[2]] :
     w \in ImmediateOps \cup RegisterOps, r \in RegSamples}
  \cup
  \* the 0 family, jumps, calls and unknown words with the stack and the
  \* screen they act on, followed by a no-op, a clear or a return
  {[DefaultInput EXCEPT !.w1 = w, !.w2 = w2, !.sp = s, !.lit = l] :
     w \in SystemOps \cup FlowOps,
     w2 \in {Word(0, 0, 0, 0), Word(0, 0, 14, 0), Word(0, 0, 14, 14)},
     s \in SpSamples, l \in BOOLEAN}
  \cup
  \* the timers and the keys
  {[DefaultInput EXCEPT !.dt = d, !.st = s, !.down = k] :
     d \in TimerSamples, s \in TimerSamples, k \in BOOLEAN}
  \cup
  \* program counters at the end of RAM
  {[DefaultInput EXCEPT !.pc = p, !.sp = s] : p \in PcSamples, s \in SpSamples}

\* The machine an input describes: new(), the program written at START_ADDR
\* by the loader, and the fields set as the input says. Stack slot i holds the
\* return address StackFill(i), also above sp (left there by earlier calls).
StackFill(i) == 768 + (2 * i)
Machine(in) ==
  [ new EXCEPT
      !.ram    = [i \in 0..(RAM_SIZE - 1) |->
                    IF i = START_ADDR THEN in.w1 \div 256
                    ELSE IF i = START_ADDR + 1 THEN in.w1 % 256
                    ELSE IF i = START_ADDR + 2 THEN in.w2 \div 256
                    ELSE IF i = START_ADDR + 3 THEN in.w2 % 256
                    ELSE IF i < FONTSET_SIZE THEN FONTSET[i + 1] ELSE 0],
      !.pc     = in.pc,
      !.v_reg  = [i \in 0..(NUM_REGS - 1) |-> IF i % 2 = 0 THEN in.a ELSE in.b],
      !.i_reg  = 291,
      !.sp     = in.sp,
      !.stack  = [i \in 0..(STACK_SIZE - 1) |-> StackFill(i)],
      !.screen = [i \in 0..(SCREEN_WIDTH * SCREEN_HEIGHT - 1) |-> in.lit],
      !.keys   = [i \in 0..(NUM_KEYS - 1) |-> in.down /\ i % 2 = 1],
      !.dt     = in.dt,
      !.st     = in.st ]

\* ------------------------------------------------------------ state

VARIABLES
  emu,    \* the machine (struct Emu)
  panic,  \* "none", or the panic that ended the run
  beeps,  \* tone-end signals emitted by the last operation
  last,   \* the last operation: "new", "tick", "tick_timers", "reset"
  op,     \* the word the last tick fetched, NoOp if none
  pre,    \* the machine before the last operation
  prev,   \* the operation before the last one, and pc and sp before it
  steps   \* operations so far

vars == <<emu, panic, beeps, last, op, pre, prev, steps>>

Init ==
  /\ \E in \in Inputs : emu = Machine(in)
  /\ panic = "none"
  /\ beeps = 0
  /\ last = "new"
  /\ op = NoOp
  /\ pre = emu
  /\ prev = [last |-> "new", op |-> NoOp, pc |-> emu.pc, sp |-> emu.sp]
  /\ steps = 0

\* An operation is called on a machine that has not panicked.
Callable == panic = "none" /\ steps < MaxSteps

History(name) ==
  /\ last' = name
  /\ pre' = emu
  /\ prev' = [last |-> last, op |-> op, pc |-> pre.pc, sp |-> pre.sp]
  /\ steps' = steps + 1

Tick ==
  /\ Callable
  /\ \E r \in tick(emu) :
       /\ emu' = r.m
       /\ panic' = r.panic
       /\ op' = r.op
  /\ beeps' = 0
  /\ History("tick")

TickTimers ==
  /\ Callable
  /\ emu' = tick_timers(emu).m
  /\ beeps' = tick_timers(emu).beeps
  /\ panic' = "none"
  /\ op' = NoOp
  /\ History("tick_timers")

Reset ==
  /\ Callable
  /\ emu' = reset(emu)
  /\ beeps' = 0
  /\ panic' = "none"
  /\ op' = NoOp
  /\ History("reset")

Next == Tick \/ TickTimers \/ Reset

Spec == Init /\ [][Next]_vars

\* ------------------------------------------------------------ runs from new()

\* new() with the two-word program w1 w2 written at START_ADDR by the loader.
Loaded(w1, w2) ==
  [ new EXCEPT
      !.ram = [i \in 0..(RAM_SIZE - 1) |->
                 IF i = START_ADDR THEN w1 \div 256
                 ELSE IF i = START_ADDR + 1 THEN w1 % 256
                 ELSE IF i = START_ADDR + 2 THEN w2 \div 256
                 ELSE IF i = START_ADDR + 3 THEN w2 % 256
                 ELSE IF i < FONTSET_SIZE THEN FONTSET[i + 1] ELSE 0] ]

InitNew ==
  /\ \E w1 \in OpSamples, w2 \in {Word(0, 0, 0, 0), Word(0, 0, 14, 0), Word(0, 0, 14, 14)} :
       emu = Loaded(w1, w2)
  /\ panic = "none"
  /\ beeps = 0
  /\ last = "new"
  /\ op = NoOp
  /\ pre = emu
  /\ prev = [last |-> "new", op |-> NoOp, pc |-> emu.pc, sp |-> emu.sp]
  /\ steps = 0

\* A tick of a run that goes on until the machine panics: ticks are not
\* bounded by MaxSteps, and steps stops counting at MaxSteps, so tick_timers
\* and reset are called among the first MaxSteps operations only.
RunTick ==
  /\ panic = "none"
  /\ \E r \in tick(emu) :
       /\ emu' = r.m
       /\ panic' = r.panic
       /\ op' = r.op
  /\ beeps' = 0
  /\ last' = "tick"
  /\ pre' = emu
  /\ prev' = [last |-> last, op |-> op, pc |-> pre.pc, sp |-> pre.sp]
  /\ steps' = IF steps < MaxSteps THEN steps + 1 ELSE steps

NextNew == RunTick \/ TickTimers \/ Reset

SpecNew == InitNew /\ [][NextNew]_vars

\* ------------------------------------------------------------ claims

CLS == Word(0, 0, 14, 0)
RET == Word(0, 0, 14, 14)

\* The last operation was a tick that fetched a word.
Fetched == last = "tick" /\ op # NoOp

\* The encodings the instruction table lists as implemented.
Implemented(w) ==
  \/ w \in {Word(0, 0, 0, 0), CLS, RET}
  \/ digit1(w) \in {1, 2, 3, 4, 6, 7}
  \/ digit1(w) = 5 /\ digit4(w) = 0
  \/ digit1(w) = 8 /\ digit4(w) \in 0..4

\* C1: a tick that fetches 6XNN completes without a panic and leaves
\* register X equal to NN and pc equal to its value before the tick plus 2.
C1_LoadImmediate ==
  (Fetched /\ digit1(op) = 6) =>
    /\ panic = "none"
    /\ emu.v_reg[digit2(op)] = nn(op)
    /\ emu.pc = pre.pc + 2

\* C2: a tick that fetches 8XY4 leaves register 0xF equal to 1 if the sum of
\* the values registers X and Y held exceeds 255 and to 0 otherwise, and
\* register X equal to that sum modulo 256.
C2_AddWithCarry ==
  (Fetched /\ digit1(op) = 8 /\ digit4(op) = 4) =>
    LET sum == pre.v_reg[digit2(op)] + pre.v_reg[digit3(op)]
    IN  /\ panic = "none"
        /\ emu.v_reg[15] = (IF sum > 255 THEN 1 ELSE 0)
        /\ emu.v_reg[digit2(op)] = sum % 256

\* C3: a tick that fetches 00E0 completes, leaves every one of the 64x32
\* cells of the screen false, advances pc by exactly 2 and changes no other
\* field of the machine.
C3_ClearScreen ==
  (Fetched /\ op = CLS) =>
    /\ panic = "none"
    /\ emu.screen = [i \in 0..(64 * 32 - 1) |-> FALSE]
    /\ emu.pc = pre.pc + 2
    /\ [emu EXCEPT !.screen = pre.screen, !.pc = pre.pc] = pre

\* A clear screen was executed on a fully lit screen.
C3_Witness ==
  /\ Fetched /\ op = CLS /\ panic = "none"
  /\ pre.screen = [i \in 0..(64 * 32 - 1) |-> TRUE]
  /\ emu.screen = [i \in 0..(64 * 32 - 1) |-> FALSE]

\* C4: with the stack not full, a tick that fetches 2NNN at address A
\* completes with pc = NNN, and a tick that then fetches 00EE at NNN leaves
\* pc equal to A + 2 and sp equal to its value before the call.
C4_CallThenReturn ==
  /\ (Fetched /\ digit1(op) = 2 /\ pre.sp < 16) =>
       (panic = "none" /\ emu.pc = nnn(op))
  /\ (Fetched /\ op = RET /\ prev.last = "tick" /\ prev.op # NoOp
        /\ digit1(prev.op) = 2 /\ prev.sp < 16 /\ pre.pc = nnn(prev.op)) =>
       (panic = "none" /\ emu.pc = prev.pc + 2 /\ emu.sp = prev.sp)

\* C5: a tick that fetches 3XNN, 4XNN or 5XY0 advances pc by exactly 4 when
\* the instruction's condition holds of the registers and by exactly 2 when
\* it does not, and changes no register.
C5_Skips ==
  LET vx   == pre.v_reg[digit2(op)]
      vy   == pre.v_reg[digit3(op)]
      cond == \/ digit1(op) = 3 /\ vx = nn(op)
              \/ digit1(op) = 4 /\ vx # nn(op)
              \/ digit1(op) = 5 /\ vx = vy
  IN  (Fetched /\ (digit1(op) \in {3, 4} \/ (digit1(op) = 5 /\ digit4(op) = 0))) =>
        /\ panic = "none"
        /\ emu.pc = pre.pc + (IF cond THEN 4 ELSE 2)
        /\ emu.v_reg = pre.v_reg

\* C6: a tick that fetches 00EE with a non-empty stack pops the top return
\* address into pc, and no tick that fetches a word of an implemented
\* encoding ends in the unimplemented-opcode panic.
C6_SpecificBeforeFallback ==
  /\ (Fetched /\ op = RET /\ pre.sp > 0) =>
       /\ panic = "none"
       /\ emu.pc = pre.stack[pre.sp - 1]
       /\ emu.sp = pre.sp - 1
  /\ (Fetched /\ Implemented(op)) => panic # "unimplemented"

\* C7: a tick that fetches a word of no implemented encoding ends in the
\* unimplemented-opcode panic, with nothing executed: the machine is as the
\* fetch left it.
C7_UnknownIsFatal ==
  (Fetched /\ ~Implemented(op)) =>
    /\ panic = "unimplemented"
    /\ emu = [pre EXCEPT !.pc = pre.pc + 2]

\* The words 00E1, 8XY5 and one with first nibble 9 or more were fetched and
\* ended in the panic (one state each; the witness is the 8XY5 one).
C7_Witness ==
  /\ Fetched /\ digit1(op) = 8 /\ digit4(op) = 5
  /\ panic = "unimplemented"

\* C8: after any sequence of operations, reset leaves the machine equal
\* field for field to new(): pc 0x200, sp 0, registers, address register,
\* stack, timers, keys and screen zero or false, ram[0..79] the font table
\* and ram[80..4095] zero.
C8_ResetIsNew ==
  (last = "reset") =>
    /\ panic = "none"
    /\ emu = new
    /\ emu.pc = 512 /\ emu.sp = 0 /\ emu.i_reg = 0 /\ emu.dt = 0 /\ emu.st = 0
    /\ \A i \in 0..15 : emu.v_reg[i] = 0 /\ emu.stack[i] = 0 /\ ~emu.keys[i]
    /\ emu.screen = [i \in 0..2047 |-> FALSE]
    /\ emu.ram = [i \in 0..4095 |-> IF i <= 79 THEN FONTSET[i + 1] ELSE 0]

\* A machine with a program loaded, keys down, registers, stack and timers
\* set was ticked and then reset.
C8_Witness ==
  /\ last = "reset" /\ prev.last = "tick"
  /\ pre.keys[1] /\ pre.ram[515] # 0 /\ pre.v_reg[15] # 0 /\ pre.sp # 0
  /\ pre.pc # 512 /\ pre.dt # 0 /\ pre.screen[0]
  /\ emu = new

\* C9: tick_timers leaves each timer one less when it was above 0 and at 0
\* when it was 0; no timer goes from 0 to 255 and none increases.
C9_TimersSaturate ==
  (last = "tick_timers") =>
    /\ emu.dt = (IF pre.dt > 0 THEN pre.dt - 1 ELSE 0)
    /\ emu.st = (IF pre.st > 0 THEN pre.st - 1 ELSE 0)
    /\ emu.dt <= pre.dt /\ emu.st <= pre.st
    /\ [emu EXCEPT !.dt = pre.dt, !.st = pre.st] = pre

\* Two timer ticks in a row, the second on a delay timer already at 0 and a
\* sound timer above 0.
C9_Witness ==
  /\ last = "tick_timers" /\ prev.last = "tick_timers"
  /\ pre.dt = 0 /\ emu.dt = 0
  /\ pre.st > 0 /\ emu.st = pre.st - 1

\* C10: a tick_timers call emits exactly one tone-end signal when the sound
\* timer is 1 before the decrement, and none when it is 0 or above 1.
C10_ToneEnd ==
  (last = "tick_timers") => beeps = (IF pre.st = 1 THEN 1 ELSE 0)

\* C11: a tick that fetches 2NNN with 16 addresses on the stack ends in a
\* panic with the stack and sp as they were, and a tick that fetches 00EE
\* with the stack empty ends in a panic with pc as the fetch left it (not
\* taken from a stack slot).
C11_StackFaults ==
  /\ (Fetched /\ digit1(op) = 2 /\ pre.sp = 16) =>
       (panic # "none" /\ emu.stack = pre.stack /\ emu.sp = pre.sp)
  /\ (Fetched /\ op = RET /\ pre.sp = 0) =>
       (panic # "none" /\ emu.pc = pre.pc + 2)

\* A call was fetched with the stack full and ended in a panic.
C11_Witness ==
  /\ Fetched /\ digit1(op) = 2 /\ pre.sp = 16
  /\ panic # "none"

\* C12: a tick started with pc >= 4095 ends in the index panic with no word
\* fetched and the machine, pc included, as it was.
C12_FetchOutOfRange ==
  (last = "tick" /\ pre.pc >= 4095) =>
    /\ panic = "index_out_of_bounds"
    /\ op = NoOp
    /\ emu = pre

\* A tick was started at pc = 4095, whose second byte is outside RAM.
C12_Witness ==
  /\ last = "tick" /\ pre.pc = 4095
  /\ panic = "index_out_of_bounds" /\ emu.pc = 4095

RECURSIVE BitOr(_, _, _)
BitOr(a, b, n) ==
  IF n = 0 THEN 0
  ELSE (IF a % 2 = 1 \/ b % 2 = 1 THEN 1 ELSE 0)
         + (2 * BitOr(a \div 2, b \div 2, n - 1))

\* C13: a tick that fetches 8XY1 completes and leaves register X equal to
\* the bitwise OR of the values registers X and Y held, and every other
\* register unchanged.
C13_BitwiseOr ==
  (Fetched /\ digit1(op) = 8 /\ digit4(op) = 1) =>
    /\ panic = "none"
    /\ emu.v_reg = [pre.v_reg EXCEPT ![digit2(op)] =
                      BitOr(pre.v_reg[digit2(op)], pre.v_reg[digit3(op)], 8)]

\* C14: a tick that fetches 7XNN completes and leaves register X equal to
\* (vx + NN) mod 256, and register 0xF as it was when X is not 0xF.
C14_AddImmediate ==
  (Fetched /\ digit1(op) = 7) =>
    /\ panic = "none"
    /\ emu.v_reg[digit2(op)] = (pre.v_reg[digit2(op)] + nn(op)) % 256
    /\ (digit2(op) # 15 => emu.v_reg[15] = pre.v_reg[15])

\* C15: a tick that fetches 0000 completes and changes nothing but pc, which
\* it increases by exactly 2.
C15_NoOp ==
  (Fetched /\ op = Word(0, 0, 0, 0)) =>
    /\ panic = "none"
    /\ emu = [pre EXCEPT !.pc = pre.pc + 2]

\* 0000 was executed on a machine with registers, stack, screen, keys and
\* timers set.
C15_Witness ==
  /\ Fetched /\ op = Word(0, 0, 0, 0) /\ panic = "none"
  /\ pre.v_reg[15] # 0 /\ pre.sp # 0 /\ pre.screen[0] /\ pre.keys[1]
  /\ pre.dt # 0 /\ pre.st # 0 /\ pre.i_reg # 0
  /\ emu.pc = pre.pc + 2

\* C16: a tick that fetches 1NNN completes with pc equal to NNN and the
\* stack, sp and the registers unchanged.
C16_Jump ==
  (Fetched /\ digit1(op) = 1) =>
    /\ panic = "none"
    /\ emu.pc = nnn(op)
    /\ emu.stack = pre.stack /\ emu.sp = pre.sp /\ emu.v_reg = pre.v_reg

\* C18: in every state of a run from new(), with any program, pc is at most
\* 4098, and a tick started with pc above 4094 ends in the index panic with
\* pc as it was.
C18_PcBounded ==
  /\ emu.pc <= 4098
  /\ (last = "tick" /\ pre.pc > 4094) =>
       (panic = "index_out_of_bounds" /\ emu.pc = pre.pc)

\* A run from new() ran off the end of RAM: the tick at pc = 4094 left
\* pc = 4096, and the next tick panicked in fetch.
C18_Witness ==
  /\ last = "tick" /\ prev.last = "tick" /\ prev.pc = 4094
  /\ pre.pc = 4096 /\ emu.pc = 4096
  /\ panic = "index_out_of_bounds"

\* The machines a tick leaves without a panic.
Ticked(m) == {r.m : r \in {x \in tick(m) : x.panic = "none"}}

\* C19: tick_timers changes nothing but dt and st; no tick changes dt, st,
\* keys, ram or i_reg; and from a state whose tick does not panic, tick then
\* tick_timers leaves the machine that tick_timers then tick leaves.
C19_TickCommutesWithTimers ==
  /\ (last = "tick_timers") => [emu EXCEPT !.dt = pre.dt, !.st = pre.st] = pre
  /\ (last = "tick") =>
       /\ emu.dt = pre.dt /\ emu.st = pre.st /\ emu.keys = pre.keys
       /\ emu.ram = pre.ram /\ emu.i_reg = pre.i_reg
  /\ (panic = "none" /\ Ticked(emu) # {}) =>
       {tick_timers(m).m : m \in Ticked(emu)} = Ticked(tick_timers(emu).m)

\* A tick that completed was followed by a tick_timers that decremented both
\* timers, and a further tick would complete.
C19_Witness ==
  /\ last = "tick_timers" /\ prev.last = "tick" /\ prev.op # NoOp
  /\ panic = "none"
  /\ pre.dt > 0 /\ emu.dt = pre.dt - 1
  /\ pre.st > 0 /\ emu.st = pre.st - 1
  /\ Ticked(emu) # {}

\* C20: in every state of a run from new(), ram[0..79] is the font table.
C20_FontInRam ==
  \A i \in 0..79 : emu.ram[i] = FONTSET[i + 1]

\* A program was loaded and run, the machine reset and ticked again.
C20_Witness ==
  /\ last = "tick" /\ prev.last = "reset" /\ panic = "none"
  /\ prev.pc # 512
  /\ \A i \in 0..79 : emu.ram[i] = FONTSET[i + 1]

====
